---------------------------- MODULE Spec2Model ----------------------------
(***************************************************************************)
(* auto-commit: a model of src/src/lib.rs (the token budgeter and the      *)
(* model selection) and of src/src/main.rs (the pipeline of main: checks   *)
(* of the environment, context assembly, the completion request, the       *)
(* parsing of the response and the delivery of the message to              *)
(* `git commit -F -`).                                                     *)
(*                                                                         *)
(* A text is a sequence of characters; a character is a one-element        *)
(* string, or the name of its code point ("U3000") when it is not ASCII.   *)
(***************************************************************************)
EXTENDS Integers, Sequences, FiniteSets, TLC

VARIABLES
    \* ---- the token budgeter applied to arbitrary inputs (TruncSpec) ----
    text,        \* the &str handed to truncate_to_n_tokens
    limit,       \* its limit: usize
    relimit,     \* the limit of the second application (>= limit)
    tpc,         \* "input" | "truncated" | "retruncated"
    result,      \* truncate_to_n_tokens(text, limit)
    result2,     \* truncate_to_n_tokens(result, relimit)
    \* ---- one run of main (Spec): the command line and the environment ----
    dry_run,          \* cli.dry_run
    review,           \* cli.review
    force,            \* cli.force
    log_level,        \* cli.verbose.log_level_filter()
    OPENAI_API_KEY,   \* TRUE when the variable is set
    AUTO_COMMIT_MODEL,\* Unset, or the variable's value
    in_work_tree,     \* TRUE when the working directory is inside a work tree
    \* ---- the primary flow ----
    pc,               \* the place of main
    outcome,          \* how main ended: "running" | "Ok" | "Err" | "exit" | "panic"
    stderr,           \* what the logger has written, in order
    git_staged_cmd,   \* the first staged diff (line 91)
    files_changed,    \* line 130
    diff_output,      \* line 147
    output,           \* the bounded context (line 156)
    sp,               \* the spinner: "None" | "Some" | "Stopped"
    requests,         \* the completion requests sent, in order
    completion,       \* the response of the completion service
    commit_msg,       \* the rendered message (line 268)
    asked,            \* how many times a confirmation was requested
    answer,           \* the user's answer
    \* ---- the delivery: the commit child, its input pipe, the writer ----
    spawns,           \* how many times `git commit` was spawned, with its arguments
    ps_commit,        \* the child: "none" | "running" | "exited"
    child_status,     \* its exit status, once exited
    stdin_open,       \* TRUE while the write end of the child's input is open
    pipe,             \* the bytes in the pipe's buffer
    writer,           \* the writer thread: "none" | "writing" | "done" | "panicked"
    written,          \* how many bytes of commit_msg write_all has written
    child_in,         \* the bytes the child has read
    child_eof,        \* TRUE once the child has read end-of-input
    repo_commits      \* the messages of the commits made in the repository

tvars == <<text, limit, relimit, tpc, result, result2>>

cli == <<dry_run, review, force, log_level>>
env == <<OPENAI_API_KEY, AUTO_COMMIT_MODEL, in_work_tree>>
context == <<git_staged_cmd, files_changed, diff_output, output>>
remote == <<requests, completion>>
delivery == <<spawns, ps_commit, child_status, stdin_open, pipe, writer,
              written, child_in, child_eof, repo_commits>>

mvars == <<cli, env, pc, outcome, stderr, context, sp, remote, commit_msg,
           asked, answer, delivery>>

vars == <<tvars, mvars>>

(***************************************************************************)
(* Bounds of the model.                                                    *)
(***************************************************************************)
MaxLen == 4      \* longest text handed to the token budgeter
MaxLimit == 3    \* largest limit handed to the token budgeter
MaxModelLen == 3 \* longest value of AUTO_COMMIT_MODEL

(***************************************************************************)
(* Characters.  White_Space is the Unicode property char::is_whitespace    *)
(* tests, which str::split_whitespace splits on.                           *)
(***************************************************************************)
White_Space ==
    { "\t", "\n", "U000B", "U000C", "\r", " ", "U0085", "U00A0", "U1680",
      "U2000", "U2001", "U2002", "U2003", "U2004", "U2005", "U2006",
      "U2007", "U2008", "U2009", "U200A", "U2028", "U2029", "U202F",
      "U205F", "U3000" }

is_whitespace(c) == c \in White_Space

\* The characters the budgeter's inputs are drawn from: an ASCII letter, a
\* multi-byte letter (U+4E16), the space, the line feed and a multi-byte
\* white space (U+3000, the ideographic space).
Chars == { "a", "U4E16", " ", "\n", "U3000" }

RECURSIVE TextsOfLen(_)
TextsOfLen(n) ==
    IF n = 0 THEN { <<>> }
    ELSE { Append(t, c) : t \in TextsOfLen(n - 1), c \in Chars }

Texts == UNION { TextsOfLen(n) : n \in 0..MaxLen }

Min(a, b) == IF a <= b THEN a ELSE b

(***************************************************************************)
(* str::split(char::is_whitespace): the pieces between white-space         *)
(* characters, the empty ones included (the empty text has one piece).     *)
(***************************************************************************)
RECURSIVE SplitFrom(_, _, _)
SplitFrom(s, i, cur) ==
    IF i > Len(s) THEN << cur >>
    ELSE IF is_whitespace(s[i]) THEN << cur >> \o SplitFrom(s, i + 1, <<>>)
    ELSE SplitFrom(s, i + 1, Append(cur, s[i]))

split(s) == SplitFrom(s, 1, <<>>)

\* A mutant of split_whitespace: the empty pieces are kept, as
\* text.split(char::is_whitespace) alone would.
split_keeping_empty(s) == split(s)

\* str::split_whitespace: the non-empty pieces, in order.
split_whitespace(s) == SelectSeq(split(s), LAMBDA p : p # <<>>)

\* Iterator::take(n): the first n items, or all of them when there are fewer.
take(items, n) == SubSeq(items, 1, Min(n, Len(items)))

\* [&str]::join(sep)
RECURSIVE join(_, _)
join(items, sep) ==
    IF Len(items) = 0 THEN <<>>
    ELSE IF Len(items) = 1 THEN items[1]
    ELSE items[1] \o sep \o join(Tail(items), sep)

Reverse(items) == [ i \in 1..Len(items) |-> items[Len(items) + 1 - i] ]

\* A mutant of truncate_to_n_tokens: the tokens are taken from the end, as
\* text.split_whitespace().rev().take(limit) would.
truncate_from_end(s, n) == join(take(Reverse(split_whitespace(s)), n), << " " >>)

\* pub fn truncate_to_n_tokens(text: &str, limit: usize) -> String
truncate_to_n_tokens(s, n) == join(take(split_whitespace(s), n), << " " >>)

(***************************************************************************)
(* pub fn get_model_from_env() -> String                                   *)
(***************************************************************************)
\* The variable is absent from the environment: std::env::var(..) is
\* Err(VarError::NotPresent).
Unset == [ set |-> FALSE ]

\* The variable is set to the text v: std::env::var(..) is Ok(v).
SetTo(v) == [ set |-> TRUE, unicode |-> TRUE, value |-> v ]

\* The variable is set to bytes that are not valid Unicode:
\* std::env::var(..) is Err(VarError::NotUnicode(..)).
NotUnicode == [ set |-> TRUE, unicode |-> FALSE, value |-> << "xFF" >> ]

DefaultModel == << "g", "p", "t", "-", "4", ".", "1", "-", "n", "a", "n", "o" >>

\* A mutant of get_model_from_env: an empty value counts as no value.
get_model_from_env_nonempty(var) ==
    IF var.set /\ var.unicode /\ var.value # <<>> THEN var.value ELSE DefaultModel

\* std::env::var("AUTO_COMMIT_MODEL").unwrap_or_else(|_| default): the value
\* when var is Ok, the default on either Err.
get_model_from_env(var) ==
    IF var.set /\ var.unicode THEN var.value ELSE DefaultModel

(***************************************************************************)
(* The logger: env_logger filtered by cli.verbose.log_level_filter().  A   *)
(* record of level l is written when l is at most the filter's level.      *)
(***************************************************************************)
LevelFilters == { "Off", "Error", "Warn", "Info", "Debug", "Trace" }

LevelRank ==
    [ Off |-> 0, Error |-> 1, Warn |-> 2, Info |-> 3, Debug |-> 4, Trace |-> 5 ]

log_enabled(level, filter) == LevelRank[level] <= LevelRank[filter]

\* error!(..) and info!(..): what stderr holds after the call.
Logged(err, level, kind, txt) ==
    IF log_enabled(level, log_level)
    THEN Append(err, [ level |-> level, kind |-> kind, text |-> txt ])
    ELSE err

\* cli.verbose.is_silent()
is_silent == log_level = "Off"

(***************************************************************************)
(* How main ends, and the exit status the process then has: Ok(()) is 0,   *)
(* Err(()) and std::process::exit(1) are 1, a panic is 101.                *)
(***************************************************************************)
exit_status(o) ==
    CASE o = "Ok" -> 0
      [] o = "Err" -> 1
      [] o = "exit" -> 1
      [] o = "panic" -> 101

Terminated == pc = "exited"

(***************************************************************************)
(* The output of the git child processes.  stdout is a text, or is not     *)
(* valid UTF-8.                                                            *)
(***************************************************************************)
InvalidUtf8 == [ utf8 |-> FALSE ]

Utf8(s) == [ utf8 |-> TRUE, s |-> s ]

\* match str::from_utf8(..) { Ok(v) => v, Err(e) => "" }
from_utf8_or_empty(out) == IF out.utf8 THEN out.s ELSE <<>>

\* str::trim: the text without its leading and trailing white space.
RECURSIVE trim_start(_)
trim_start(s) ==
    IF s # <<>> /\ is_whitespace(Head(s)) THEN trim_start(Tail(s)) ELSE s

RECURSIVE trim_end(_)
trim_end(s) ==
    IF s # <<>> /\ is_whitespace(s[Len(s)])
    THEN trim_end(SubSeq(s, 1, Len(s) - 1))
    ELSE s

trim(s) == trim_end(trim_start(s))

\* What `git diff --staged` may print: nothing, a diff, bytes that are not
\* UTF-8.
StagedDiffOutputs == { Utf8(<<>>), Utf8(<< "+", "a", "\n" >>), InvalidUtf8 }

\* What `git diff --name-only --staged` may print.
ChangedFilesOutputs == { Utf8(<<>>), Utf8(<< "f", "\n" >>), InvalidUtf8 }

\* What `git rev-parse --is-inside-work-tree` prints: "true" inside a work
\* tree; "false" (inside the .git directory) or nothing (no repository)
\* outside one.
RevParseOutputs(inside) ==
    IF inside THEN { Utf8(<< "t", "r", "u", "e", "\n" >>) }
    ELSE { Utf8(<< "f", "a", "l", "s", "e", "\n" >>), Utf8(<<>>), InvalidUtf8 }

\* A mutant of is_inside_work_tree: any answer of git passes.
answered(out) == trim(from_utf8_or_empty(out)) # <<>>

\* str::from_utf8(&is_repo).unwrap_or("").trim() == "true"
is_inside_work_tree(out) == trim(from_utf8_or_empty(out)) = << "t", "r", "u", "e" >>

\* const MAX_DIFF_TOKENS: usize = 20_000;
MAX_DIFF_TOKENS == 20000

\* format!("Changed files:\n{}\n\nDiff:\n{}", files_changed, diff_output)
combined(files, diff) ==
    << "C", "h", "a", "n", "g", "e", "d", " ", "f", "i", "l", "e", "s", ":", "\n" >>
    \o files \o << "\n", "\n", "D", "i", "f", "f", ":", "\n" >> \o diff

(***************************************************************************)
(* The completion service's response, and its parsing.  The arguments of   *)
(* a function call are a JSON text, which the model holds parsed: either   *)
(* not JSON at all, or an object, each of whose members "title" and        *)
(* "description" is missing, a string, or a value that is not a string.    *)
(***************************************************************************)
Missing == [ kind |-> "missing" ]
NotAString == [ kind |-> "number" ]
Str(s) == [ kind |-> "string", value |-> s ]

Titles == { << "T" >> }
Descriptions == { <<>>, << "D" >> }

NotJson == [ json |-> FALSE ]

JsonObjects ==
    [ json : { TRUE },
      title : { Str(t) : t \in Titles } \cup { Missing, NotAString },
      description : { Str(d) : d \in Descriptions } \cup { Missing },
      extra : BOOLEAN ]

Arguments ==
    { NotJson } \cup
    { o \in JsonObjects :
        o.extra => o.title.kind = "string" /\ o.description = Str(<< "D" >>) }

FunctionNames == { "commit", "get_diff" }

NoFunctionCall == [ name |-> "NONE" ]

FunctionCalls ==
    { NoFunctionCall } \cup [ name : FunctionNames, arguments : Arguments ]

\* A response: its choices, each a message with its function_call.
Responses == { <<>> } \cup { << fc >> : fc \in FunctionCalls }

\* A mutant of from_str_Commit: a missing description is read as the empty
\* string, as #[serde(default)] on the field would.
from_str_Commit_default(arguments) ==
    IF /\ arguments.json
       /\ arguments.title.kind = "string"
       /\ arguments.description.kind \in { "string", "missing" }
    THEN [ ok |-> TRUE, title |-> arguments.title.value,
           description |-> IF arguments.description.kind = "missing" THEN <<>>
                           ELSE arguments.description.value ]
    ELSE [ ok |-> FALSE ]

\* serde_json::from_str::<Commit>: Ok(Commit) when the text is a JSON object
\* with a string "title" and a string "description" (members the struct does
\* not name are ignored), Err otherwise.
from_str_Commit(arguments) ==
    IF /\ arguments.json
       /\ arguments.title.kind = "string"
       /\ arguments.description.kind = "string"
    THEN [ ok |-> TRUE, title |-> arguments.title.value,
           description |-> arguments.description.value ]
    ELSE [ ok |-> FALSE ]

\* A mutant of to_string: one line feed between the title and the
\* description, as format!("{}\n{}", ..) would.
to_string_one_newline(commit) == commit.title \o << "\n" >> \o commit.description

\* impl ToString for Commit: format!("{}\n\n{}", self.title, self.description)
to_string(commit) == commit.title \o << "\n", "\n" >> \o commit.description

\* Lines 267-270: Ok(message), or a panic (no choice, no function call,
\* arguments that do not parse).
parse_completion(resp) ==
    IF Len(resp) = 0 THEN [ ok |-> FALSE ]
    ELSE IF resp[1].name = NoFunctionCall.name THEN [ ok |-> FALSE ]
    ELSE LET c == from_str_Commit(resp[1].arguments)
         IN  IF c.ok THEN [ ok |-> TRUE, msg |-> to_string(c) ]
             ELSE [ ok |-> FALSE ]

\* The capacity of the pipe to the child's standard input, in bytes.
PipeCap == 2

(***************************************************************************)
(* The state after Cli::parse() and the logger's initialisation.           *)
(***************************************************************************)
\* Option<T>: None, or Some(v); Get(Some(v)) is v.
None == <<>>
Some(v) == << v >>
Get(o) == o[1]

\* The child's exit status while it has none.
NoStatus == "none"

ModelValues == { Unset, SetTo(<< "m" >>) }

TIdle ==
    /\ text = <<>>
    /\ limit = 0
    /\ relimit = 0
    /\ tpc = "idle"
    /\ result = <<>>
    /\ result2 = <<>>

MStart ==
    /\ pc = "start"
    /\ outcome = "running"
    /\ stderr = <<>>
    /\ git_staged_cmd = None
    /\ files_changed = None
    /\ diff_output = None
    /\ output = None
    /\ sp = "None"
    /\ requests = <<>>
    /\ completion = None
    /\ commit_msg = None
    /\ asked = 0
    /\ answer = None
    /\ spawns = <<>>
    /\ ps_commit = "none"
    /\ child_status = NoStatus
    /\ stdin_open = FALSE
    /\ pipe = <<>>
    /\ writer = "none"
    /\ written = 0
    /\ child_in = <<>>
    /\ child_eof = FALSE
    /\ repo_commits = <<>>

Init ==
    /\ TIdle
    /\ dry_run \in BOOLEAN
    /\ review \in BOOLEAN
    /\ force \in BOOLEAN
    /\ log_level \in LevelFilters
    /\ OPENAI_API_KEY \in BOOLEAN
    /\ AUTO_COMMIT_MODEL \in ModelValues
    /\ in_work_tree \in BOOLEAN
    /\ MStart

\* return Err(()), std::process::exit(1), a panic, return Ok(()): main ends
\* and the process exits.
End(how) ==
    /\ pc' = "exited"
    /\ outcome' = how

(***************************************************************************)
(* Lines 76-79: the credential.                                            *)
(***************************************************************************)
CheckApiKey ==
    /\ pc = "start"
    /\ IF OPENAI_API_KEY
       THEN /\ pc' = "git_staged"
            /\ UNCHANGED <<outcome, stderr>>
       ELSE /\ stderr' = Logged(stderr, "Error", "set_OPENAI_API_KEY", <<>>)
            /\ End("exit")
    /\ UNCHANGED <<cli, env, context, sp, remote, commit_msg, asked, answer,
                   delivery, tvars>>

(***************************************************************************)
(* Lines 81-101: the first staged diff; an empty one is reported and the   *)
(* run goes on.                                                            *)
(***************************************************************************)
\* A mutant of GitStaged: an empty staged diff ends the run.
GitStaged_halting ==
    /\ pc = "git_staged"
    /\ \/ /\ stderr' = Logged(stderr, "Error", "failed_to_get_staged_diff", <<>>)
          /\ End("Err")
          /\ UNCHANGED git_staged_cmd
       \/ \E out \in StagedDiffOutputs :
             LET v == from_utf8_or_empty(out)
             IN  /\ git_staged_cmd' = Some(v)
                 /\ IF v = <<>>
                    THEN /\ stderr' = Logged(stderr, "Error", "no_staged_files", <<>>)
                         /\ End("exit")
                    ELSE /\ pc' = "is_repo"
                         /\ UNCHANGED <<outcome, stderr>>
    /\ UNCHANGED <<cli, env, files_changed, diff_output, output, sp, remote,
                   commit_msg, asked, answer, delivery, tvars>>

GitStaged ==
    /\ pc = "git_staged"
    /\ \/ /\ stderr' = Logged(stderr, "Error", "failed_to_get_staged_diff", <<>>)
          /\ End("Err")
          /\ UNCHANGED git_staged_cmd
       \/ \E out \in StagedDiffOutputs :
             LET v == from_utf8_or_empty(out)
                 e1 == IF ~out.utf8
                       THEN Logged(stderr, "Error", "staged_diff_not_utf8", <<>>)
                       ELSE stderr
                 e2 == IF v = <<>>
                       THEN Logged(e1, "Error", "no_staged_files", <<>>)
                       ELSE e1
             IN  /\ git_staged_cmd' = Some(v)
                 /\ stderr' = e2
                 /\ pc' = "is_repo"
                 /\ UNCHANGED outcome
    /\ UNCHANGED <<cli, env, files_changed, diff_output, output, sp, remote,
                   commit_msg, asked, answer, delivery, tvars>>

(***************************************************************************)
(* Lines 103-116: the work tree.                                           *)
(***************************************************************************)
IsRepo ==
    /\ pc = "is_repo"
    /\ \/ /\ stderr' = Logged(stderr, "Error", "failed_to_check_repository", <<>>)
          /\ End("Err")
       \/ \E out \in RevParseOutputs(in_work_tree) :
             IF ~is_inside_work_tree(out)
             THEN /\ stderr' = Logged(stderr, "Error", "not_in_a_git_repository", <<>>)
                  /\ End("exit")
             ELSE /\ pc' = "files"
                  /\ UNCHANGED <<outcome, stderr>>
    /\ UNCHANGED <<cli, env, context, sp, remote, commit_msg, asked, answer,
                   delivery, tvars>>

(***************************************************************************)
(* Lines 120-136: the changed paths.                                       *)
(***************************************************************************)
GitFiles ==
    /\ pc = "files"
    /\ \/ /\ stderr' = Logged(stderr, "Error", "could_not_get_changed_files", <<>>)
          /\ End("Err")
          /\ UNCHANGED files_changed
       \/ \E out \in ChangedFilesOutputs :
             /\ files_changed' = Some(from_utf8_or_empty(out))
             /\ stderr' = IF ~out.utf8
                          THEN Logged(stderr, "Error", "changed_files_not_utf8", <<>>)
                          ELSE stderr
             /\ pc' = "diff"
             /\ UNCHANGED outcome
    /\ UNCHANGED <<cli, env, git_staged_cmd, diff_output, output, sp, remote,
                   commit_msg, asked, answer, delivery, tvars>>

(***************************************************************************)
(* Lines 138-195: the diff, the bounded context, the spinner.              *)
(***************************************************************************)
GitDiff ==
    /\ pc = "diff"
    /\ \/ /\ stderr' = Logged(stderr, "Error", "could_not_find_diff", <<>>)
          /\ End("Err")
          /\ UNCHANGED <<diff_output, output, sp>>
       \/ \E out \in StagedDiffOutputs :
             LET v == from_utf8_or_empty(out)
                 e1 == IF ~out.utf8
                       THEN Logged(stderr, "Error", "diff_not_utf8", <<>>)
                       ELSE stderr
             IN  /\ diff_output' = Some(v)
                 /\ output' = Some(truncate_to_n_tokens(
                                 combined(Get(files_changed), v),
                                 MAX_DIFF_TOKENS))
                 /\ stderr' = IF ~dry_run
                              THEN Logged(e1, "Info", "loading_data", <<>>)
                              ELSE e1
                 /\ sp' = IF ~dry_run /\ is_silent THEN "Some" ELSE "None"
                 /\ pc' = "request"
                 /\ UNCHANGED outcome
    /\ UNCHANGED <<cli, env, git_staged_cmd, files_changed, remote,
                   commit_msg, asked, answer, delivery, tvars>>

(***************************************************************************)
(* Lines 197-259: the completion request is built and sent.                *)
(***************************************************************************)
SendRequest ==
    /\ pc = "request"
    /\ requests' = Append(requests,
          [ model |-> get_model_from_env(AUTO_COMMIT_MODEL),
            functions |-> << "get_diff", "commit" >>,
            function_call |-> "commit",
            content |-> Get(output) ])
    /\ pc' = "await"
    /\ UNCHANGED <<cli, env, outcome, stderr, context, sp, completion,
                   commit_msg, asked, answer, delivery, tvars>>

(***************************************************************************)
(* Lines 260-265: the request is awaited; an error of the service is a     *)
(* panic; the spinner, if any, is stopped.                                 *)
(***************************************************************************)
\* A mutant of Receive: after an error of the service the request is sent
\* again.
Receive_retrying ==
    /\ pc = "await"
    /\ \/ /\ pc' = "request"
          /\ UNCHANGED <<outcome, completion, sp>>
       \/ \E resp \in Responses :
             /\ completion' = Some(resp)
             /\ sp' = IF sp = "Some" THEN "Stopped" ELSE sp
             /\ pc' = "parse"
             /\ UNCHANGED outcome
    /\ UNCHANGED <<cli, env, stderr, context, requests, commit_msg, asked,
                   answer, delivery, tvars>>

Receive ==
    /\ pc = "await"
    /\ \/ /\ End("panic")
          /\ UNCHANGED <<completion, sp>>
       \/ \E resp \in Responses :
             /\ completion' = Some(resp)
             /\ sp' = IF sp = "Some" THEN "Stopped" ELSE sp
             /\ pc' = "parse"
             /\ UNCHANGED outcome
    /\ UNCHANGED <<cli, env, stderr, context, requests, commit_msg, asked,
                   answer, delivery, tvars>>

(***************************************************************************)
(* Lines 267-280: the response is parsed into the message (or main         *)
(* panics); a dry run prints it and returns, another run shows the         *)
(* proposal.                                                               *)
(***************************************************************************)
\* A mutant of skip_confirmation: the flag is read inverted.
skip_confirmation_inverted == ~force

\* if !cli.force { ask } (line 281)
skip_confirmation == force

Propose ==
    /\ pc = "parse"
    /\ LET r == parse_completion(Get(completion))
       IN  IF ~r.ok
           THEN /\ End("panic")
                /\ UNCHANGED <<commit_msg, stderr>>
           ELSE /\ commit_msg' = Some(r.msg)
                /\ IF dry_run
                   THEN /\ stderr' = Logged(stderr, "Info", "message", r.msg)
                        /\ End("Ok")
                   ELSE /\ stderr' = Logged(stderr, "Info", "proposed_commit", r.msg)
                        /\ pc' = IF skip_confirmation THEN "spawn" ELSE "ask"
                        /\ UNCHANGED outcome
    /\ UNCHANGED <<cli, env, context, sp, remote, asked, answer, delivery,
                   tvars>>

(***************************************************************************)
(* Lines 281-294: the confirmation (asked until the answer is yes or no;   *)
(* an empty answer is the default, yes).                                   *)
(***************************************************************************)
Replies == { "", "y", "n" }

\* .yes_no().until_acceptable().default(Answer::YES): the empty reply is the
\* default.
answer_of(reply) ==
    IF reply = "" THEN "YES" ELSE IF reply = "y" THEN "YES" ELSE "NO"

\* A mutant of declined: no answer aborts (the comparison is never true).
declined_never(a) == FALSE

\* answer == Answer::NO
declined(a) == a = "NO"

Ask ==
    /\ pc = "ask"
    /\ asked' = asked + 1
    /\ \E reply \in Replies :
          /\ answer' = Some(answer_of(reply))
          /\ IF declined(answer_of(reply))
             THEN /\ stderr' = Logged(stderr, "Error", "commit_aborted_by_user", <<>>)
                  /\ End("exit")
             ELSE /\ stderr' = Logged(stderr, "Info", "committing_message", <<>>)
                  /\ pc' = "spawn"
                  /\ UNCHANGED outcome
    /\ UNCHANGED <<cli, env, context, sp, remote, commit_msg, delivery, tvars>>

(***************************************************************************)
(* Lines 297-311: `git commit [-e] -F -` is spawned with a piped standard  *)
(* input, which is handed to a new thread that writes the message.         *)
(***************************************************************************)
commit_args == << "commit" >> \o (IF review THEN << "-e" >> ELSE <<>>) \o << "-F", "-" >>

SpawnCommit ==
    /\ pc = "spawn"
    /\ \/ /\ End("panic")
          /\ UNCHANGED <<spawns, ps_commit, stdin_open, writer>>
       \/ /\ spawns' = Append(spawns, commit_args)
          /\ ps_commit' = "running"
          /\ stdin_open' = TRUE
          /\ writer' = "writing"
          /\ pc' = "wait"
          /\ UNCHANGED outcome
    /\ UNCHANGED <<cli, env, stderr, context, sp, remote, commit_msg, asked,
                   answer, child_status, pipe, written, child_in, child_eof,
                   repo_commits, tvars>>

(***************************************************************************)
(* Lines 307-311, the writer thread: write_all writes the message into the *)
(* pipe as room allows; when all is written the closure returns and the    *)
(* write end is dropped; a write to a pipe whose reader has exited fails,  *)
(* and the thread panics.                                                  *)
(***************************************************************************)
WriterWrite ==
    /\ pc # "exited"
    /\ writer = "writing"
    /\ ps_commit = "running"
    /\ written < Len(Get(commit_msg))
    /\ Len(pipe) < PipeCap
    /\ \E k \in 1..Min(PipeCap - Len(pipe), Len(Get(commit_msg)) - written) :
          /\ pipe' = pipe \o SubSeq(Get(commit_msg), written + 1, written + k)
          /\ written' = written + k
    /\ UNCHANGED <<cli, env, pc, outcome, stderr, context, sp, remote,
                   commit_msg, asked, answer, spawns, ps_commit, child_status,
                   stdin_open, writer, child_in, child_eof, repo_commits, tvars>>

\* A mutant of WriterDone: the write end is dropped before all is written.
WriterDone_early ==
    /\ pc # "exited"
    /\ writer = "writing"
    /\ writer' = "done"
    /\ stdin_open' = FALSE
    /\ UNCHANGED <<cli, env, pc, outcome, stderr, context, sp, remote,
                   commit_msg, asked, answer, spawns, ps_commit, child_status,
                   pipe, written, child_in, child_eof, repo_commits, tvars>>

\* A mutant of WriterDone: the closure returns and the write end stays
\* open.
WriterDone_leaking ==
    /\ pc # "exited"
    /\ writer = "writing"
    /\ written = Len(Get(commit_msg))
    /\ writer' = "done"
    /\ UNCHANGED <<cli, env, pc, outcome, stderr, context, sp, remote,
                   commit_msg, asked, answer, spawns, ps_commit, child_status,
                   stdin_open, pipe, written, child_in, child_eof,
                   repo_commits, tvars>>

WriterDone ==
    /\ pc # "exited"
    /\ writer = "writing"
    /\ written = Len(Get(commit_msg))
    /\ writer' = "done"
    /\ stdin_open' = FALSE
    /\ UNCHANGED <<cli, env, pc, outcome, stderr, context, sp, remote,
                   commit_msg, asked, answer, spawns, ps_commit, child_status,
                   pipe, written, child_in, child_eof, repo_commits, tvars>>

WriterBrokenPipe ==
    /\ pc # "exited"
    /\ writer = "writing"
    /\ written < Len(Get(commit_msg))
    /\ ps_commit = "exited"
    /\ writer' = "panicked"
    /\ stdin_open' = FALSE
    /\ UNCHANGED <<cli, env, pc, outcome, stderr, context, sp, remote,
                   commit_msg, asked, answer, spawns, ps_commit, child_status,
                   pipe, written, child_in, child_eof, repo_commits, tvars>>

(***************************************************************************)
(* The child, `git commit -F -`: it reads its standard input to the end,   *)
(* then (after the editor, with -e) makes the commit and exits with status *)
(* zero; or it fails, at any point, makes no commit and exits with a       *)
(* status that is not zero.                                                *)
(***************************************************************************)
ChildRead ==
    /\ ps_commit = "running"
    /\ pipe # <<>>
    /\ \E k \in 1..Len(pipe) :
          /\ child_in' = child_in \o SubSeq(pipe, 1, k)
          /\ pipe' = SubSeq(pipe, k + 1, Len(pipe))
    /\ UNCHANGED <<cli, env, pc, outcome, stderr, context, sp, remote,
                   commit_msg, asked, answer, spawns, ps_commit, child_status,
                   stdin_open, writer, written, child_eof, repo_commits, tvars>>

ChildEof ==
    /\ ps_commit = "running"
    /\ pipe = <<>>
    /\ ~stdin_open
    /\ ~child_eof
    /\ child_eof' = TRUE
    /\ UNCHANGED <<cli, env, pc, outcome, stderr, context, sp, remote,
                   commit_msg, asked, answer, spawns, ps_commit, child_status,
                   stdin_open, pipe, writer, written, child_in, repo_commits,
                   tvars>>

\* What the user may leave in the editor that -e opens.
Edited == << "E" >>

ChildCommit ==
    /\ ps_commit = "running"
    /\ child_eof
    /\ \E m \in { child_in } \cup (IF review THEN { Edited } ELSE {}) :
          repo_commits' = Append(repo_commits, m)
    /\ ps_commit' = "exited"
    /\ child_status' = "0"
    /\ UNCHANGED <<cli, env, pc, outcome, stderr, context, sp, remote,
                   commit_msg, asked, answer, spawns, stdin_open, pipe, writer,
                   written, child_in, child_eof, tvars>>

FailureStatuses == { "1" }

ChildFail ==
    /\ ps_commit = "running"
    /\ ps_commit' = "exited"
    /\ \E s \in FailureStatuses : child_status' = s
    /\ UNCHANGED <<cli, env, pc, outcome, stderr, context, sp, remote,
                   commit_msg, asked, answer, spawns, stdin_open, pipe, writer,
                   written, child_in, child_eof, repo_commits, tvars>>

(***************************************************************************)
(* Lines 313-319: wait_with_output returns once the child has exited; its  *)
(* captured standard output (nothing: it is not piped) is logged and main  *)
(* returns Ok(()), whatever the child's exit status.                       *)
(***************************************************************************)
\* A mutant of Wait: a child that failed is spawned again.
Wait_retrying ==
    /\ pc = "wait"
    /\ ps_commit = "exited"
    /\ IF child_status = "0"
       THEN /\ stderr' = Logged(stderr, "Info", "commit_output", <<>>)
            /\ End("Ok")
            /\ UNCHANGED delivery
       ELSE /\ pc' = "spawn"
            /\ ps_commit' = "none"
            /\ child_status' = NoStatus
            /\ writer' = "none"
            /\ written' = 0
            /\ pipe' = <<>>
            /\ child_in' = <<>>
            /\ child_eof' = FALSE
            /\ stdin_open' = FALSE
            /\ UNCHANGED <<outcome, stderr, spawns, repo_commits>>
    /\ UNCHANGED <<cli, env, context, sp, remote, commit_msg, asked, answer,
                   tvars>>

Wait ==
    /\ pc = "wait"
    /\ ps_commit = "exited"
    /\ stderr' = Logged(stderr, "Info", "commit_output", <<>>)
    /\ End("Ok")
    /\ UNCHANGED <<cli, env, context, sp, remote, commit_msg, asked, answer,
                   delivery, tvars>>

Next ==
    \/ CheckApiKey
    \/ GitStaged
    \/ IsRepo
    \/ GitFiles
    \/ GitDiff
    \/ SendRequest
    \/ Receive
    \/ Propose
    \/ Ask
    \/ SpawnCommit
    \/ WriterWrite
    \/ WriterDone
    \/ WriterBrokenPipe
    \/ ChildRead
    \/ ChildEof
    \/ ChildCommit
    \/ ChildFail
    \/ Wait

Spec == Init /\ [][Next]_vars

\* The variables of main while only the token budgeter is exercised.
MIdle ==
    /\ dry_run = FALSE
    /\ review = FALSE
    /\ force = FALSE
    /\ log_level = "Info"
    /\ OPENAI_API_KEY = FALSE
    /\ AUTO_COMMIT_MODEL = Unset
    /\ in_work_tree = FALSE
    /\ MStart

(***************************************************************************)
(* The token budgeter applied to every text and limit of the bounds, and   *)
(* applied again to its own result with a limit that is not smaller.       *)
(***************************************************************************)
TInit ==
    /\ MIdle
    /\ text \in Texts
    /\ limit \in 0..MaxLimit
    /\ relimit = 0
    /\ tpc = "input"
    /\ result = <<>>
    /\ result2 = <<>>

Truncate ==
    /\ tpc = "input"
    /\ result' = truncate_to_n_tokens(text, limit)
    /\ tpc' = "truncated"
    /\ UNCHANGED <<text, limit, relimit, result2, mvars>>

ReTruncate ==
    /\ tpc = "truncated"
    /\ \E m \in limit..(MaxLimit + 1) :
          /\ relimit' = m
          /\ result2' = truncate_to_n_tokens(result, m)
    /\ tpc' = "retruncated"
    /\ UNCHANGED <<text, limit, result, mvars>>

TNext == Truncate \/ ReTruncate

TruncSpec == TInit /\ [][TNext]_vars

(***************************************************************************)
(* The run up to the completion request, over the values the environment   *)
(* can give AUTO_COMMIT_MODEL: absent, not valid Unicode, or a text of at   *)
(* most MaxModelLen characters (a letter, a space, a non-ASCII letter).     *)
(***************************************************************************)
ModelChars == { "m", " ", "U6A21" }

ModelTextsOfLen(n) == [ 1..n -> ModelChars ]

ModelTexts == UNION { ModelTextsOfLen(n) : n \in 0..MaxModelLen }

ModelEnvValues == { Unset, NotUnicode } \cup { SetTo(v) : v \in ModelTexts }

RequestInit ==
    /\ TIdle
    /\ dry_run \in BOOLEAN
    /\ review = FALSE
    /\ force = FALSE
    /\ log_level = "Info"
    /\ OPENAI_API_KEY \in BOOLEAN
    /\ AUTO_COMMIT_MODEL \in ModelEnvValues
    /\ in_work_tree \in BOOLEAN
    /\ MStart

RequestNext ==
    \/ CheckApiKey
    \/ GitStaged
    \/ IsRepo
    \/ GitFiles
    \/ GitDiff
    \/ SendRequest

RequestSpec == RequestInit /\ [][RequestNext]_vars

(***************************************************************************)
(* The run with a commit child that reads its standard input to the end    *)
(* and only then exits (with the commit made, or with a failure), under    *)
(* the scheduling of the writer thread, of the child process and of main's *)
(* wait: each of them takes its step when it can.                          *)
(***************************************************************************)
ChildFailAfterEof ==
    /\ child_eof
    /\ ChildFail

DeliveryInit ==
    /\ TIdle
    /\ dry_run = FALSE
    /\ review \in BOOLEAN
    /\ force \in BOOLEAN
    /\ log_level = "Info"
    /\ OPENAI_API_KEY \in BOOLEAN
    /\ AUTO_COMMIT_MODEL = Unset
    /\ in_work_tree \in BOOLEAN
    /\ MStart

DeliveryNext ==
    \/ CheckApiKey
    \/ GitStaged
    \/ IsRepo
    \/ GitFiles
    \/ GitDiff
    \/ SendRequest
    \/ Receive
    \/ Propose
    \/ Ask
    \/ SpawnCommit
    \/ WriterWrite
    \/ WriterDone
    \/ ChildRead
    \/ ChildEof
    \/ ChildCommit
    \/ ChildFailAfterEof
    \/ Wait

DeliverySpec ==
    /\ DeliveryInit
    /\ [][DeliveryNext]_vars
    /\ WF_vars(WriterWrite)
    /\ WF_vars(WriterDone)
    /\ WF_vars(ChildRead)
    /\ WF_vars(ChildEof)
    /\ WF_vars(ChildCommit \/ ChildFailAfterEof)
    /\ WF_vars(Wait)

(***************************************************************************)
(* Properties of a run of main.                                            *)
(***************************************************************************)
\* The response has been received.
Received == completion # None

\* The log holds a record of this kind.
LoggedKind(kind) == \E i \in 1..Len(stderr) : stderr[i].kind = kind

\* The rendered message has been printed: as the dry run's output, or as the
\* proposal shown before the confirmation.
PrintedMessage ==
    \E i \in 1..Len(stderr) :
        /\ stderr[i].kind = "message"
        /\ stderr[i].text = Get(commit_msg)

ProposalShown == LoggedKind("message") \/ LoggedKind("proposed_commit")

\* The response, stated on its shape: no choice, no function call, arguments
\* that are not JSON, or an object without "title" or without "description".
Malformed(resp) ==
    \/ Len(resp) = 0
    \/ resp[1].name = NoFunctionCall.name
    \/ ~resp[1].arguments.json
    \/ resp[1].arguments.title.kind = "missing"
    \/ resp[1].arguments.description.kind = "missing"

\* The response holds a function call whose arguments are an object with a
\* string title and a string description.
ValidProposal(resp) ==
    /\ Len(resp) = 1
    /\ resp[1].name # NoFunctionCall.name
    /\ resp[1].arguments.json
    /\ resp[1].arguments.title.kind = "string"
    /\ resp[1].arguments.description.kind = "string"

\* C2: with OPENAI_API_KEY unset, or outside a work tree, no request is ever
\* sent and no commit is ever spawned, the run never gets past the check that
\* fails, and it ends with an exit status that is not zero.
C2_FailFast ==
    /\ ~OPENAI_API_KEY =>
          /\ pc \in { "start", "exited" }
          /\ requests = <<>> /\ spawns = <<>> /\ repo_commits = <<>>
          /\ Terminated => outcome = "exit" /\ exit_status(outcome) # 0
    /\ ~in_work_tree =>
          /\ pc \in { "start", "git_staged", "is_repo", "exited" }
          /\ requests = <<>> /\ spawns = <<>> /\ repo_commits = <<>>
          /\ Terminated => exit_status(outcome) # 0

\* C2's case: a run with the credential, outside a work tree, has ended at
\* the work-tree check.
C2_Witness ==
    /\ OPENAI_API_KEY
    /\ ~in_work_tree
    /\ git_staged_cmd # None
    /\ Terminated
    /\ outcome = "exit"

\* C3 (the claim as stated): a dry run that obtained a valid proposal has
\* printed the rendered message, has spawned no commit, has asked nothing and
\* ends with exit status zero.
C3_DryRunPrints ==
    (/\ dry_run
     /\ Received
     /\ ValidProposal(Get(completion))
     /\ Terminated) =>
        /\ PrintedMessage
        /\ spawns = <<>> /\ repo_commits = <<>>
        /\ asked = 0
        /\ exit_status(outcome) = 0

\* C4: when the user answers no, the run ends at once with an exit status
\* that is not zero, and no commit has been spawned.
C4_DeclinedAborts ==
    (~dry_run /\ ~force /\ answer = Some("NO")) =>
        /\ Terminated
        /\ exit_status(outcome) # 0
        /\ spawns = <<>> /\ repo_commits = <<>>
        /\ ps_commit = "none"

\* C4's case: the confirmation was requested and answered no.
C4_Witness ==
    /\ ~dry_run /\ ~force
    /\ asked = 1
    /\ answer = Some("NO")
    /\ Terminated

\* C5: after a malformed response the run fails: main panics (exit status
\* 101), no message is rendered, nothing is shown as a proposal, no
\* confirmation is requested and no commit is spawned.
C5_MalformedResponseFails ==
    (Received /\ Malformed(Get(completion))) =>
        /\ pc \in { "parse", "exited" }
        /\ Terminated => outcome = "panic" /\ exit_status(outcome) # 0
        /\ commit_msg = None
        /\ ~ProposalShown
        /\ asked = 0
        /\ spawns = <<>> /\ repo_commits = <<>>

\* C5's case: the commit function was called with an object that omits the
\* description, and the run has ended.
C5_Witness ==
    /\ Received
    /\ Len(Get(completion)) = 1
    /\ Get(completion)[1].name = "commit"
    /\ Get(completion)[1].arguments.json
    /\ Get(completion)[1].arguments.title.kind = "string"
    /\ Get(completion)[1].arguments.description.kind = "missing"
    /\ Terminated
    /\ outcome = "panic"

\* C6 (the claim as stated): a run whose commit child failed ends with an
\* exit status that is not zero, and exit status zero comes only from a dry
\* run or a successful commit.
C6_FailedCommitIsFatal ==
    Terminated =>
        /\ (ps_commit = "exited" /\ child_status # "0") => exit_status(outcome) # 0
        /\ exit_status(outcome) = 0 =>
              dry_run \/ (ps_commit = "exited" /\ child_status = "0")

\* The run took the non-dry-run, non-aborted path: a proposal was obtained,
\* and --force was set or the user confirmed.
CommitPath ==
    /\ ~dry_run
    /\ commit_msg # None
    /\ force \/ answer = Some("YES")

\* C7 (the claim as stated): a run that took the non-dry-run, non-aborted
\* path to its end has made exactly one commit, and no run spawns the commit
\* operation more than once.
C7_ExactlyOneMutation ==
    /\ Len(spawns) <= 1
    /\ (CommitPath /\ Terminated /\ outcome = "Ok") => Len(repo_commits) = 1

\* C7 (amended): the commit operation is spawned at most once, and exactly
\* once on a run that took the path to its end; at most one commit is made:
\* exactly one when the child exited with status zero, none when it could not
\* be spawned or failed.
C7_AtMostOneMutation ==
    /\ Len(spawns) <= 1
    /\ Len(repo_commits) <= Len(spawns)
    /\ (CommitPath /\ Terminated /\ outcome = "Ok") => Len(spawns) = 1
    /\ (CommitPath /\ Terminated) =>
          /\ (ps_commit = "exited" /\ child_status = "0") => Len(repo_commits) = 1
          /\ ~(ps_commit = "exited" /\ child_status = "0") => Len(repo_commits) = 0

\* C7's case: a forced or confirmed run has ended after its child made the
\* commit.
C7_Witness ==
    /\ CommitPath
    /\ Terminated
    /\ outcome = "Ok"
    /\ child_status = "0"
    /\ Len(repo_commits) = 1

\* The run has the credential, is inside a work tree, and found the staged
\* diff empty.
EmptyChangeSet ==
    /\ OPENAI_API_KEY
    /\ in_work_tree
    /\ git_staged_cmd = Some(<<>>)

\* C8 (the claim as stated): with an empty staged diff the warning is
\* reported, and the run that ends has sent the completion request.
C8_EmptyChangeSetWarnsAndProceeds ==
    EmptyChangeSet =>
        /\ LoggedKind("no_staged_files")
        /\ Terminated => Len(requests) = 1

\* C8 (amended): with an empty staged diff the warning is logged at the error
\* level, so it is reported unless logging is off; the run ends before the
\* request only when git cannot be run (main returns Err); otherwise the
\* request is sent, with the context of the empty diff, and a valid proposal
\* is taken to the delivery.
C8_EmptyChangeSetDoesNotHalt ==
    EmptyChangeSet =>
        /\ LoggedKind("no_staged_files") <=> log_level # "Off"
        /\ (Terminated /\ outcome # "Err") => Len(requests) = 1
        /\ pc \in { "await", "parse", "ask", "spawn", "wait" } => Len(requests) = 1
        /\ (Received /\ ValidProposal(Get(completion)) /\ pc # "parse") =>
              /\ commit_msg # None
              /\ dry_run \/ pc \in { "ask", "spawn", "wait", "exited" }

\* C8's case: nothing was staged, the warning was reported, the request was
\* sent and the proposal reached the delivery.
C8_Witness ==
    /\ EmptyChangeSet
    /\ diff_output = Some(<<>>)
    /\ LoggedKind("no_staged_files")
    /\ Len(requests) = 1
    /\ commit_msg # None
    /\ pc = "wait"

\* C9: a commit is spawned only in a run without --dry-run in which --force is
\* set or the user confirmed; a confirmation is requested only when neither
\* --dry-run nor --force is set, and at most once; with --force the run never
\* reaches the confirmation.
C9_CommitOnlyForcedOrConfirmed ==
    /\ spawns # <<>> => ~dry_run /\ (force \/ answer = Some("YES"))
    /\ repo_commits # <<>> => spawns # <<>>
    /\ (asked > 0 \/ pc = "ask") => ~dry_run /\ ~force
    /\ asked <= 1
    /\ (answer # None) <=> (asked = 1)
    /\ force => asked = 0 /\ answer = None
    /\ (~force /\ spawns # <<>>) => asked = 1

\* C9's case: a forced run has spawned the commit without asking.
C9_Witness ==
    /\ force /\ ~dry_run
    /\ Len(spawns) = 1
    /\ asked = 0
    /\ repo_commits # <<>>

\* m is t, then two line feeds, then d, stated on positions.
IsRendering(m, t, d) ==
    /\ Len(m) = Len(t) + 2 + Len(d)
    /\ \A i \in 1..Len(t) : m[i] = t[i]
    /\ m[Len(t) + 1] = "\n"
    /\ m[Len(t) + 2] = "\n"
    /\ \A i \in 1..Len(d) : m[Len(t) + 2 + i] = d[i]

\* C11: the rendered message of a parsed proposal is the title, two line
\* feeds, the description; every record that prints the message (the dry
\* run's output, the proposal) holds exactly this text, a dry run that logs
\* at the info level has printed it, and the bytes handed to the child's
\* input are this text: a prefix of it while the writer writes, all of it
\* once the writer is done or the child has read end-of-input.
C11_RenderedMessage ==
    commit_msg # None =>
        /\ Received
        /\ ValidProposal(Get(completion))
        /\ LET m == Get(commit_msg)
               t == Get(completion)[1].arguments.title.value
               d == Get(completion)[1].arguments.description.value
           IN  /\ IsRendering(m, t, d)
               /\ \A i \in 1..Len(stderr) :
                     stderr[i].kind \in { "message", "proposed_commit" } =>
                         stderr[i].text = m
               /\ (dry_run /\ log_level \in { "Info", "Debug", "Trace" }) =>
                     /\ Terminated
                     /\ \E i \in 1..Len(stderr) :
                           stderr[i].kind = "message" /\ stderr[i].text = m
               /\ written <= Len(m)
               /\ child_in \o pipe = SubSeq(m, 1, written)
               /\ writer = "done" => child_in \o pipe = m
               /\ child_eof => child_in = m

\* C11's case: the proposal {T, D} was shown, and the writer has handed the
\* whole message to the child, which has read it.
C11_Witness ==
    /\ pc = "wait"
    /\ LoggedKind("proposed_commit")
    /\ writer = "done"
    /\ child_in = << "T", "\n", "\n", "D" >>
    /\ Get(commit_msg) = child_in

\* The model identifier the request was sent with.
RequestedModel == requests[1].model

GptNano == << "g", "p", "t", "-", "4", ".", "1", "-", "n", "a", "n", "o" >>

\* C12 as the specification states it: the request's model is the variable's
\* value whenever the variable is set, and the default exactly when it is
\* unset.
C12_DefaultExactlyWhenUnset ==
    requests # <<>> =>
        /\ AUTO_COMMIT_MODEL.set => RequestedModel = AUTO_COMMIT_MODEL.value
        /\ (RequestedModel = GptNano) <=> ~AUTO_COMMIT_MODEL.set

\* C12, amended: the request's model is the variable's value, unchanged,
\* whenever the variable is set to valid Unicode text (the empty text, white
\* space only and non-ASCII text included), and it is "gpt-4.1-nano" when the
\* variable is unset or set to bytes that are not valid Unicode; the default
\* is used in no other case (but that of a variable set to the default).
C12_ModelFromEnv ==
    requests # <<>> =>
        /\ Len(requests) = 1
        /\ (AUTO_COMMIT_MODEL.set /\ AUTO_COMMIT_MODEL.unicode) =>
               RequestedModel = AUTO_COMMIT_MODEL.value
        /\ ~AUTO_COMMIT_MODEL.set => RequestedModel = GptNano
        /\ (AUTO_COMMIT_MODEL.set /\ ~AUTO_COMMIT_MODEL.unicode) =>
               RequestedModel = GptNano
        /\ RequestedModel = GptNano =>
               \/ ~AUTO_COMMIT_MODEL.set
               \/ ~AUTO_COMMIT_MODEL.unicode
               \/ AUTO_COMMIT_MODEL.value = GptNano

\* C12's case: a request was sent while the variable was set to the empty
\* text, and the request names the empty model.
C12_Witness ==
    /\ requests # <<>>
    /\ AUTO_COMMIT_MODEL = SetTo(<<>>)
    /\ RequestedModel = <<>>

\* The response holds an invocation of the commit function.
NamesCommit(resp) == \E i \in 1..Len(resp) : resp[i].name = "commit"

\* C13 (the claim as stated): when the response holds no invocation of the
\* commit function, no message is accepted from it, nothing is proposed, no
\* commit is spawned or made, and the run ends in a failure.
C13_OnlyCommitInvocationAccepted ==
    (Received /\ ~NamesCommit(Get(completion))) =>
        /\ commit_msg = None
        /\ ~ProposalShown
        /\ asked = 0
        /\ spawns = <<>> /\ repo_commits = <<>>
        /\ Terminated => outcome = "panic"

\* The writer thread cannot go on: it has not finished, and the pipe is full
\* (or it has finished).
WriterBlocked == ~ENABLED WriterWrite /\ ~ENABLED WriterDone

\* The child cannot go on: there is nothing to read and no end-of-input, or
\* nothing lets it exit.
ChildBlocked ==
    /\ ~ENABLED ChildRead
    /\ ~ENABLED ChildEof
    /\ ~ENABLED ChildCommit
    /\ ~ENABLED ChildFailAfterEof

\* While main waits for a child that runs, the writer or the child can go
\* on; and there is never more than the one writer, the one child.
NoWriteWaitDeadlock ==
    /\ (pc = "wait" /\ ps_commit = "running") =>
          ~(WriterBlocked /\ ChildBlocked)
    /\ Len(spawns) <= 1
    /\ Len(pipe) <= PipeCap

\* C14: with a child that reads to end-of-input and then exits, in no state
\* are the writer and the child both blocked while main waits; the writer,
\* once started, finishes; and main's wait returns and the run terminates,
\* whatever the length of the message against the capacity of the pipe.
C14_DeliveryTerminates ==
    /\ []NoWriteWaitDeadlock
    /\ (writer = "writing") ~> (writer = "done")
    /\ (pc = "wait") ~> (Terminated /\ outcome = "Ok")

\* C14's case: main waits, the message is longer than the pipe, the pipe is
\* full and the writer has more to write.
C14_Witness ==
    /\ pc = "wait"
    /\ ps_commit = "running"
    /\ writer = "writing"
    /\ Len(Get(commit_msg)) > PipeCap
    /\ Len(pipe) = PipeCap
    /\ written < Len(Get(commit_msg))

\* C15: at most one completion request is sent; the proposal or the dry
\* run's output, the confirmation and the commit come only after the one
\* request has returned a response; a run whose request failed has ended in
\* a panic with nothing shown, nothing asked and nothing spawned.
C15_RemoteCallPrecedesDelivery ==
    /\ Len(requests) <= 1
    /\ Received => Len(requests) = 1
    /\ ( \/ commit_msg # None
         \/ ProposalShown
         \/ asked > 0 \/ answer # None \/ pc \in { "ask", "spawn", "wait" }
         \/ spawns # <<>> \/ ps_commit # "none" \/ writer # "none"
         \/ repo_commits # <<>> ) => Received
    /\ (pc = "await") => (requests # <<>> /\ ~Received)
    /\ (requests # <<>> /\ ~Received /\ pc # "await") =>
          /\ Terminated
          /\ outcome = "panic"
          /\ exit_status(outcome) # 0

\* C15's case: the one request was sent, the service failed, and the run has
\* ended.
C15_Witness ==
    /\ Len(requests) = 1
    /\ ~Received
    /\ Terminated
    /\ outcome = "panic"
    /\ asked = 0 /\ spawns = <<>>

\* C16: what the child has read, then what the pipe holds, is what the
\* writer has written, a prefix of the message, in order; the write end is
\* open exactly while the writer writes, and the writer is done only with
\* the whole message written; so the child has seen end-of-input only with
\* the whole message read, and, without -e, what it commits is the message.
C16_NoTruncatedMessage ==
    commit_msg # None =>
        LET m == Get(commit_msg)
        IN  /\ written <= Len(m)
            /\ child_in \o pipe = SubSeq(m, 1, written)
            /\ stdin_open <=> writer = "writing"
            /\ writer = "done" => written = Len(m)
            /\ child_eof =>
                  /\ writer = "done"
                  /\ pipe = <<>>
                  /\ Len(child_in) = Len(m)
                  /\ \A i \in 1..Len(m) : child_in[i] = m[i]
            /\ repo_commits # <<>> => child_eof
            /\ ~review => \A i \in 1..Len(repo_commits) : repo_commits[i] = m

\* C16's case: a message longer than the pipe was written in pieces, the
\* child has seen end-of-input and has made its commit.
C16_Witness ==
    /\ commit_msg # None
    /\ Len(Get(commit_msg)) > PipeCap
    /\ child_eof
    /\ ~review
    /\ repo_commits = << Get(commit_msg) >>

(***************************************************************************)
(* Tokens, stated on positions: a token of s is a maximal run of           *)
(* characters that are not white space.                                    *)
(***************************************************************************)
TokenSpans(s) ==
    { span \in (1..Len(s)) \X (1..Len(s)) :
        /\ span[1] <= span[2]
        /\ \A k \in span[1]..span[2] : s[k] \notin White_Space
        /\ span[1] = 1 \/ s[span[1] - 1] \in White_Space
        /\ span[2] = Len(s) \/ s[span[2] + 1] \in White_Space }

NumTokens(s) == Cardinality(TokenSpans(s))

\* The k-th token of s, 1 <= k <= NumTokens(s).
KthToken(s, k) ==
    LET span == CHOOSE x \in TokenSpans(s) :
                 Cardinality({ y \in TokenSpans(s) : y[1] <= x[1] }) = k
    IN  SubSeq(s, span[1], span[2])

\* Every white-space character of s is one space standing between two
\* characters that are not white space.
SingleSpaced(s) ==
    \A p \in 1..Len(s) :
        s[p] \in White_Space =>
            /\ s[p] = " "
            /\ 1 < p /\ p < Len(s)
            /\ s[p - 1] \notin White_Space
            /\ s[p + 1] \notin White_Space

\* C1: truncate_to_n_tokens(T, L) is the first min(L, n) tokens of T, in
\* order and unaltered, joined by exactly one space: it has min(L, n) tokens,
\* its k-th token is the k-th token of T, it holds no white space but single
\* spaces between tokens, and it is empty when L = 0 or T has no token.
C1_TruncateIsTokenPrefix ==
    tpc # "input" =>
        LET n == NumTokens(text)
            m == Min(limit, n)
        IN  /\ NumTokens(result) = m
            /\ NumTokens(result) <= limit
            /\ \A k \in 1..m : KthToken(result, k) = KthToken(text, k)
            /\ SingleSpaced(result)
            /\ (limit = 0 \/ n = 0) => result = <<>>

\* C1's case: a text with irregular white space and a multi-byte token,
\* holding more tokens than the limit, has been truncated to one token.
C1_Witness ==
    /\ tpc = "truncated"
    /\ text = << "\n", "U4E16", "U3000", "a" >>
    /\ limit = 1
    /\ result = << "U4E16" >>

\* C10: truncating the result again with the same or a larger limit changes
\* nothing.
C10_TruncateStable ==
    tpc = "retruncated" => result2 = result

\* C10's case: a text with more tokens than the limit was truncated, then
\* truncated again with a larger limit.
C10_Witness ==
    /\ tpc = "retruncated"
    /\ NumTokens(text) > limit
    /\ limit >= 1
    /\ relimit > limit
    /\ result # text

=============================================================================
